---- MODULE Spec2Model ----
(***************************************************************************)
(* A model of the session store (backend/app/utils/session_manager.py)    *)
(* and of the request handlers that use it (backend/app/main.py).         *)
(*                                                                         *)
(* Time is counted in units of the session timeout: one tick of `clock`   *)
(* is one timeout period (settings.session_timeout_minutes), so a session *)
(* whose last activity lies more than session_timeout ticks back is       *)
(* expired.  Every request runs on a thread of its own; a thread's        *)
(* position is pc[t], its pending returns are stack[t] and its local      *)
(* variables are loc[t].  A `with self._lock:` block is an acquire step   *)
(* followed by the steps of its body, the last of which releases.         *)
(***************************************************************************)
EXTENDS Integers, Sequences, FiniteSets, TLC

\* ------------------------------------------------------------------ bounds
MaxClock == 2         \* the clock stops here
MaxToolCalls == 1     \* the supervisor calls this many tools in a turn
MaxMessages == 2      \* the supervisor calls this many tools in a turn whose
                      \* messages are spelt out
MaxQuantity == 3      \* calculate_price is asked for up to this many units
MaxCount == 2         \* no increment is started on a session that counts this
                      \* many messages, no chat turn when the store does

Threads == {1, 2}
NoThread == 0

None == 0
SessionIds == {1, 2}    \* the ids uuid4 hands out in a run
CustomerArgs == {101}

\* self._session_timeout, in ticks
session_timeout == 1

VARIABLES
    sessions,   \* self._sessions: a function from the stored ids to their dicts
    lock,       \* self._lock: the thread that holds it, or NoThread
    clock,      \* what datetime.now() returns
    issued,     \* the ids uuid4 has returned so far
    pc,         \* pc[t]: where thread t is
    stack,      \* stack[t]: where the calls t is in return to
    loc,        \* loc[t]: the arguments and locals of t's calls
    applied,    \* applied[id]: how many increment calls found id stored
    last,       \* the call that has just returned to its caller, if any
    SESSION_BILLING_POLICIES,   \* billing_tools.py: session id -> policy text
    billing_store,              \* vector_store_manager._billing_store
    cached_in   \* cached_in[key]: the session of the chat turn in which the
                \* policy text of key was cached, None outside a turn

vars == <<sessions, lock, clock, issued, pc, stack, loc, applied, last,
          SESSION_BILLING_POLICIES, billing_store, cached_in>>

\* The state of the billing tools.
billing_vars == <<SESSION_BILLING_POLICIES, billing_store, cached_in>>

\* The state of the session store.
store_vars == <<sessions, lock, clock, issued, applied>>

\* ----------------------------------------------------------------- values
NoKwargs == [keys |-> {}, routing_history |-> <<>>, last_activity |-> 0,
             customer_id |-> None]

\* The keyword arguments callers pass to update_session.
KwargsSet ==
    { [NoKwargs EXCEPT !.keys = {"routing_history"},
                       !.routing_history = <<"Supervisor">>],
      [NoKwargs EXCEPT !.keys = {"last_activity"}, !.last_activity = 0] }

\* A request body without its fields.
NoRequest == [keys |-> {}, message |-> ""]

IdleLoc == [op |-> "idle", session_id |-> None, customer_id |-> None,
            session |-> None, goc_session_id |-> None, new_session_id |-> None,
            kwargs |-> NoKwargs, tmp |-> 0, now |-> 0, expired |-> {},
            ret |-> None, count |-> 0, routed_to |-> "", status_code |-> 0,
            tool_name |-> "", tool |-> "", tool_calls |-> 0,
            query |-> "", cache_key |-> "", dynamic_context |-> "",
            searches |-> << >>, result |-> "",
            product |-> << >>, quantity |-> 0, message |-> << >>,
            request |-> NoRequest, messages |-> << >>, response_text |-> ""]

NoCall == [thread |-> NoThread, call |-> IdleLoc]

\* A session that starts out used.
NewSession_used(session_id, customer_id, now1, now2) ==
    [session_id |-> session_id,
     customer_id |-> customer_id,
     created_at |-> now1,
     last_activity |-> now2,
     message_count |-> 1,
     cached_billing_policies |-> None,
     routing_history |-> <<"Supervisor">>]

\* The dict create_session stores; created_at and last_activity are two
\* calls of datetime.now().
NewSession(session_id, customer_id, now1, now2) ==
    [session_id |-> session_id,
     customer_id |-> customer_id,
     created_at |-> now1,
     last_activity |-> now2,
     message_count |-> 0,
     cached_billing_policies |-> None,
     routing_history |-> <<>>]

\* The comparison with >= for >.
IsExpiredInclusive(session, now) == now - session.last_activity >= session_timeout

\* datetime.now() - session["last_activity"] > self._session_timeout
IsExpired(session, now) == now - session.last_activity > session_timeout

\* The refresh left out.
NotRefreshed(session, now) == session

\* A refresh that starts the count of the session anew.
Refreshed_recounted(session, now) ==
    [session EXCEPT !.last_activity = now, !.message_count = 0]

\* session["last_activity"] = datetime.now()
Refreshed(session, now) == [session EXCEPT !.last_activity = now]

\* session.update(kwargs)
DictUpdate(session, kwargs) ==
    [session EXCEPT
       !.routing_history = IF "routing_history" \in kwargs.keys
                           THEN kwargs.routing_history ELSE @,
       !.last_activity = IF "last_activity" \in kwargs.keys
                         THEN kwargs.last_activity ELSE @,
       !.customer_id = IF "customer_id" \in kwargs.keys
                       THEN kwargs.customer_id ELSE @]

\* Line 78 left out: a last_activity among the kwargs stays.
update_session_merge_only(session, kwargs, now) == DictUpdate(session, kwargs)

\* lines 77-78: session.update(kwargs), then the refresh
update_session_merge(session, kwargs, now) ==
    Refreshed(DictUpdate(session, kwargs), now)

\* del self._sessions[sid], for every sid of gone
DictRemove(d, gone) == [s \in DOMAIN d \ gone |-> d[s]]

\* The increments of a dict that left the store are no longer counted.
Forget(a, gone) == [s \in DOMAIN a |-> IF s \in gone THEN 0 ELSE a[s]]

\* self._sessions.get(sid): a reference to the stored dict, which the model
\* names by its id, or None
DictGet(d, sid) == IF sid \in DOMAIN d THEN sid ELSE None

\* self._sessions[sid] = session
DictPut(d, sid, session) ==
    [s \in DOMAIN d \cup {sid} |-> IF s = sid THEN session ELSE d[s]]

\* An id generator that can repeat itself.
uuid4_repeating == SessionIds

\* str(uuid.uuid4()): an id that was never generated before.  The ids are
\* opaque, so which of the unused ones comes next makes no difference: it is
\* the smallest.
uuid4 == {id \in SessionIds \ issued : \A other \in SessionIds \ issued : id <= other}

\* Two readings of datetime.now() within one method: the second is the first
\* or one tick later.
LaterNow == {n \in {clock, clock + 1} : n <= MaxClock}

\* The ids of the sessions a round trip is under way on: nobody but the
\* caller of get_or_create_session has seen them.
Private ==
    {loc[t].session_id : t \in {u \in Threads : loc[u].op = "round_trip"}}

\* The ids a caller names are ids it was given earlier.  One that has left
\* the store since stands for any id the store does not know: to the dict
\* both are missing keys.
CallerIds == issued \ Private

\* ------------------------------------------------------------------- lock
\* A lock that does not exclude.
acquire_unguarded(t) == lock' = t

\* threading.Lock: acquire blocks while the lock is held
acquire(t) == lock = NoThread /\ lock' = t

\* A with block that is left with the lock held.
release_kept(t) == UNCHANGED lock

\* leaving the with block
release(t) == lock' = NoThread

\* A get_session that returns from inside its with block with the lock held.
get_session_exit_holding(t) == UNCHANGED lock

\* get_session leaves its with block at each of its three returns
get_session_exit(t) == release(t)

\* ---------------------------------------------------------------- control
\* Where a thread goes when a call returns v to the frames of stk: <<pc, stack>>.
\* "goc_check" is get_or_create_session after its first get_session (lines
\* 64-66): a session is returned to its own caller, None leads on to line 69.
RECURSIVE Cont(_, _)
Cont(stk, v) ==
    IF stk = << >> THEN <<"idle", << >>>>
    ELSE IF Head(stk) = "goc_check"
         THEN IF v # None THEN Cont(Tail(stk), v)
                          ELSE <<"goc_create", Tail(stk)>>
         ELSE <<Head(stk), Tail(stk)>>

\* Thread t moves on to label; l are its locals afterwards.
Goto(t, label, stk, l) ==
    /\ pc' = [pc EXCEPT ![t] = label]
    /\ stack' = [stack EXCEPT ![t] = stk]
    /\ loc' = [loc EXCEPT ![t] = l]
    /\ last' = NoCall

\* Thread t moves on within its request, outside the billing tools.
Step(t, label, stk, l) ==
    /\ Goto(t, label, stk, l)
    /\ UNCHANGED billing_vars

\* The function t is in returns v to the frames of stk; l are t's locals at
\* that moment.
ReturnTo(t, stk, l, v) ==
    LET c == Cont(stk, v) IN
    /\ pc' = [pc EXCEPT ![t] = c[1]]
    /\ stack' = [stack EXCEPT ![t] = c[2]]
    /\ IF c[1] = "idle"
       THEN /\ loc' = [loc EXCEPT ![t] = IdleLoc]
            /\ last' = [thread |-> t, call |-> [l EXCEPT !.ret = v]]
       ELSE /\ loc' = [loc EXCEPT ![t] = [l EXCEPT !.ret = v]]
            /\ last' = NoCall

\* The function t is in returns v.
Return(t, l, v) == ReturnTo(t, stack[t], l, v)

\* A method of the store, or a handler, returns v.
Finish(t, l, v) ==
    /\ Return(t, l, v)
    /\ UNCHANGED billing_vars

Init ==
    /\ sessions = << >>
    /\ lock = NoThread
    /\ clock = 0
    /\ issued = {}
    /\ pc = [t \in Threads |-> "idle"]
    /\ stack = [t \in Threads |-> << >>]
    /\ loc = [t \in Threads |-> IdleLoc]
    /\ applied = [s \in SessionIds |-> 0]
    /\ last = NoCall
    /\ SESSION_BILLING_POLICIES = << >>
    /\ billing_store = None
    /\ cached_in = << >>

\* ------------------------------------------------------- create_session
\* lines 25-27: draw the id, enter the with block
create_session_enter(t, customer_id, stk, l) ==
    /\ acquire(t)
    /\ \E session_id \in uuid4 :
         /\ issued' = issued \cup {session_id}
         /\ Step(t, "cs_store", stk,
                 [l EXCEPT !.customer_id = customer_id,
                           !.session_id = session_id])
    /\ UNCHANGED <<sessions, clock, applied>>

\* lines 28-39
create_session_store(t) ==
    /\ pc[t] = "cs_store"
    /\ \E now2 \in LaterNow :
         /\ sessions' = DictPut(sessions, loc[t].session_id,
                                NewSession(loc[t].session_id,
                                           loc[t].customer_id, clock, now2))
         /\ clock' = now2
    /\ release(t)
    /\ Finish(t, loc[t], loc[t].session_id)
    /\ UNCHANGED <<issued, applied>>

create_session(t) ==
    /\ pc[t] = "idle"
    /\ \E customer_id \in CustomerArgs :
         create_session_enter(t, customer_id, << >>,
                              [IdleLoc EXCEPT !.op = "create_session"])

\* ---------------------------------------------------------- get_session
\* line 43
get_session_enter(t, session_id, stk, l) ==
    /\ acquire(t)
    /\ Step(t, "gs_body", stk, [l EXCEPT !.session_id = session_id])
    /\ UNCHANGED <<sessions, clock, issued, applied>>

\* lines 44-57
get_session_body(t) ==
    /\ pc[t] = "gs_body"
    /\ LET sid == loc[t].session_id
           l == [loc[t] EXCEPT !.session = DictGet(sessions, sid)] IN
       IF l.session = None
       THEN /\ Finish(t, l, None)
            /\ UNCHANGED <<sessions, clock, applied>>
       ELSE IF IsExpired(sessions[sid], clock)
       THEN /\ sessions' = DictRemove(sessions, {sid})
            /\ applied' = Forget(applied, {sid})
            /\ Finish(t, l, None)
            /\ UNCHANGED clock
       ELSE \E now2 \in LaterNow :
            /\ sessions' = [sessions EXCEPT ![sid] = Refreshed(@, now2)]
            /\ clock' = now2
            /\ Finish(t, l, sid)
            /\ UNCHANGED applied
    /\ get_session_exit(t)
    /\ UNCHANGED issued

get_session(t) ==
    /\ pc[t] = "idle"
    /\ \E session_id \in CallerIds :
         get_session_enter(t, session_id, << >>,
                           [IdleLoc EXCEPT !.op = "get_session"])

\* ------------------------------------------------ get_or_create_session
\* lines 62-63, or 62 and 69
get_or_create_session_enter(t, session_id, customer_id, stk, l) ==
    LET l2 == [l EXCEPT !.goc_session_id = session_id,
                        !.customer_id = customer_id] IN
    IF session_id # None
    THEN get_session_enter(t, session_id, <<"goc_check">> \o stk, l2)
    ELSE create_session_enter(t, customer_id, <<"goc_get">> \o stk, l2)

\* line 69 after a get_session that returned None
get_or_create_session_create(t) ==
    /\ pc[t] = "goc_create"
    /\ create_session_enter(t, loc[t].customer_id,
                            <<"goc_get">> \o stack[t], loc[t])

\* line 70: return self.get_session(new_session_id)
get_or_create_session_get(t) ==
    /\ pc[t] = "goc_get"
    /\ get_session_enter(t, loc[t].ret, stack[t],
                         [loc[t] EXCEPT !.new_session_id = loc[t].ret])

get_or_create_session(t) ==
    /\ pc[t] = "idle"
    /\ \E session_id \in CallerIds \cup {None}, customer_id \in CustomerArgs :
         get_or_create_session_enter(t, session_id, customer_id, << >>,
             [IdleLoc EXCEPT !.op = "get_or_create_session"])

\* ------------------------------------------------------- update_session
\* line 74
update_session_enter(t, session_id, kwargs, stk, l) ==
    /\ acquire(t)
    /\ Step(t, "us_body", stk,
            [l EXCEPT !.session_id = session_id, !.kwargs = kwargs])
    /\ UNCHANGED <<sessions, clock, issued, applied>>

\* lines 75-78
update_session_body(t) ==
    /\ pc[t] = "us_body"
    /\ LET sid == loc[t].session_id
           l == [loc[t] EXCEPT !.session = DictGet(sessions, sid)] IN
       /\ IF l.session # None
          THEN sessions' = [sessions EXCEPT ![sid] =
                   update_session_merge(@, loc[t].kwargs, clock)]
          ELSE UNCHANGED sessions
       /\ Finish(t, l, None)
    /\ release(t)
    /\ UNCHANGED <<clock, issued, applied>>

update_session(t) ==
    /\ pc[t] = "idle"
    /\ \E session_id \in CallerIds, kwargs \in KwargsSet :
         update_session_enter(t, session_id, kwargs, << >>,
                              [IdleLoc EXCEPT !.op = "update_session"])

\* ---------------------------------------------- increment_message_count
\* line 82
increment_message_count_enter(t, session_id, stk, l) ==
    /\ acquire(t)
    /\ Step(t, "im_load", stk, [l EXCEPT !.session_id = session_id])
    /\ UNCHANGED <<sessions, clock, issued, applied>>

\* lines 83-85, up to the read of session["message_count"]
increment_message_count_load(t) ==
    /\ pc[t] = "im_load"
    /\ LET sid == loc[t].session_id
           l == [loc[t] EXCEPT !.session = DictGet(sessions, sid)] IN
       IF l.session # None
       THEN /\ Step(t, "im_store", stack[t],
                    [l EXCEPT !.tmp = sessions[sid].message_count])
            /\ applied' = [applied EXCEPT ![sid] = @ + 1]
            /\ UNCHANGED lock
       ELSE /\ release(t)
            /\ Finish(t, l, None)
            /\ UNCHANGED applied
    /\ UNCHANGED <<sessions, clock, issued>>

\* line 85, the write of session["message_count"]
increment_message_count_store(t) ==
    /\ pc[t] = "im_store"
    /\ LET sid == loc[t].session_id IN
       IF sid \in DOMAIN sessions
       THEN sessions' = [sessions EXCEPT ![sid].message_count = loc[t].tmp + 1]
       ELSE UNCHANGED sessions
    /\ release(t)
    /\ Finish(t, loc[t], None)
    /\ UNCHANGED <<clock, issued, applied>>

increment_message_count(t) ==
    /\ pc[t] = "idle"
    /\ \E session_id \in CallerIds :
         /\ session_id \in DOMAIN sessions
               => sessions[session_id].message_count < MaxCount
         /\ increment_message_count_enter(t, session_id, << >>,
                [IdleLoc EXCEPT !.op = "increment_message_count"])

\* --------------------------------------------- cleanup_expired_sessions
\* line 89
cleanup_expired_sessions_enter(t, stk, l) ==
    /\ acquire(t)
    /\ Step(t, "ce_scan", stk, l)
    /\ UNCHANGED <<sessions, clock, issued, applied>>

\* lines 90-94
cleanup_expired_sessions_scan(t) ==
    /\ pc[t] = "ce_scan"
    /\ Step(t, "ce_del", stack[t],
            [loc[t] EXCEPT
               !.now = clock,
               !.expired = {sid \in DOMAIN sessions :
                              IsExpired(sessions[sid], clock)}])
    /\ UNCHANGED <<sessions, lock, clock, issued, applied>>

\* lines 96-101
cleanup_expired_sessions_del(t) ==
    /\ pc[t] = "ce_del"
    /\ sessions' = DictRemove(sessions, loc[t].expired)
    /\ applied' = Forget(applied, loc[t].expired)
    /\ release(t)
    /\ Finish(t, loc[t], None)
    /\ UNCHANGED <<clock, issued>>

cleanup_expired_sessions(t) ==
    /\ pc[t] = "idle"
    /\ cleanup_expired_sessions_enter(t, << >>,
           [IdleLoc EXCEPT !.op = "cleanup_expired_sessions"])

\* ---------------------------------------------------- get_session_count
\* line 105
get_session_count_enter(t, stk, l) ==
    /\ acquire(t)
    /\ Step(t, "gc_body", stk, l)
    /\ UNCHANGED <<sessions, clock, issued, applied>>

\* line 106
get_session_count_body(t) ==
    /\ pc[t] = "gc_body"
    /\ release(t)
    /\ Finish(t, [loc[t] EXCEPT !.count = Cardinality(DOMAIN sessions)], None)
    /\ UNCHANGED <<sessions, clock, issued, applied>>

get_session_count(t) ==
    /\ pc[t] = "idle"
    /\ get_session_count_enter(t, << >>,
           [IdleLoc EXCEPT !.op = "get_session_count"])

\* -------------------------------------------------------------- the rest
\* Time passes.  Inside a with block it passes only between two readings of
\* datetime.now() (LaterNow): a tick while the lock is held is a tick just
\* before the block is entered, to everything the block reads.
Tick ==
    /\ clock < MaxClock
    /\ lock = NoThread
    /\ clock' = clock + 1
    /\ last' = NoCall
    /\ UNCHANGED <<sessions, lock, issued, pc, stack, loc, applied>>
    /\ UNCHANGED billing_vars

\* A caller calls a method of the store.
StoreCall(t) ==
    \/ create_session(t)
    \/ get_session(t)
    \/ get_or_create_session(t)
    \/ update_session(t)
    \/ increment_message_count(t)
    \/ cleanup_expired_sessions(t)
    \/ get_session_count(t)

\* A thread that is inside a method of the store takes its next step.
StoreStep(t) ==
    \/ create_session_store(t)
    \/ get_session_body(t)
    \/ get_or_create_session_create(t)
    \/ get_or_create_session_get(t)
    \/ update_session_body(t)
    \/ increment_message_count_load(t)
    \/ increment_message_count_store(t)
    \/ cleanup_expired_sessions_scan(t)
    \/ cleanup_expired_sessions_del(t)
    \/ get_session_count_body(t)

Next == (\E t \in Threads : StoreCall(t) \/ StoreStep(t)) \/ Tick

\* Concurrent callers of the session store.
Spec == Init /\ [][Next]_vars

\* The same under fair scheduling: a thread inside a method that can take
\* its next step again and again, because it holds the lock or because the
\* lock it waits for is free again and again, takes it in the end.
SpecFair == Spec /\ \A t \in Threads : SF_vars(StoreStep(t))

\* The positions inside the with blocks (lines 27-36, 43-57, 74-78, 82-85,
\* 89-101, 105-106).
WithBlocks ==
    {"cs_store", "gs_body", "us_body", "im_load", "im_store",
     "ce_scan", "ce_del", "gc_body"}

\* ------------------------------------------------------------- resuming
\* A customer id other than the one the sessions were created for.
OtherCustomerArgs == {102}

\* A caller comes back with the id of a session and the id of another
\* customer: get_or_create_session(session_id, customer_id).
get_or_create_session_resume(t) ==
    /\ pc[t] = "idle"
    /\ \E session_id \in CallerIds, customer_id \in OtherCustomerArgs :
         get_or_create_session_enter(t, session_id, customer_id, << >>,
             [IdleLoc EXCEPT !.op = "get_or_create_session"])

NextResume ==
    \/ \E t \in Threads :
          get_or_create_session_resume(t) \/ StoreCall(t) \/ StoreStep(t)
    \/ Tick

\* Concurrent callers of the store, some of them resuming a session under
\* another customer id.
SpecResume == Init /\ [][NextResume]_vars

\* ----------------------------------------------------------- round trip
\* A caller asks for a new session and then looks it up by the id it got:
\* session = get_or_create_session(None, customer_id), ...
round_trip(t) ==
    /\ pc[t] = "idle"
    /\ \E customer_id \in CustomerArgs :
         get_or_create_session_enter(t, None, customer_id, <<"rt_get">>,
             [IdleLoc EXCEPT !.op = "round_trip"])

\* ... get_session(session["session_id"]); without a session there is no id
\* to look up.
round_trip_get(t) ==
    /\ pc[t] = "rt_get"
    /\ IF loc[t].ret = None
       THEN /\ Finish(t, loc[t], None)
            /\ UNCHANGED <<sessions, lock, clock, issued, applied>>
       ELSE get_session_enter(t, loc[t].ret, << >>, loc[t])

NextRoundTrip ==
    \/ \E t \in Threads :
          round_trip(t) \/ round_trip_get(t) \/ StoreCall(t) \/ StoreStep(t)
    \/ Tick

\* Round trips among concurrent callers of the store.
SpecRoundTrip == Init /\ [][NextRoundTrip]_vars

\* ----------------------------------------------------------------- chat
\* The tools of the supervisor (supervisor.py, lines 18-72).
ToolNames == {"billing_support", "technical_support", "policy_support"}

\* The tools whose specialist searches the vector store.
SearchingTools == {"billing_support", "technical_support"}

\* main.py, lines 148-158: the agent named by the first tool call
RoutedTo(tool_name) ==
    CASE tool_name = "billing_support" -> "Billing Support"
      [] tool_name = "technical_support" -> "Technical Support"
      [] tool_name = "policy_support" -> "Policy & Compliance"
      [] OTHER -> "Supervisor"

\* main.py, lines 176-181: the request ends with status 500
HTTPException(t) ==
    /\ Finish(t, [loc[t] EXCEPT !.status_code = 500], None)
    /\ UNCHANGED <<sessions, lock, clock, issued, applied>>

\* The turns under way that are not yet counted in a message_count.
Uncounted ==
    {u \in Threads : /\ loc[u].op = "chat"
                     /\ pc[u] \notin {"chat_history", "chat_update", "us_body"}}

\* The messages the stored sessions of ids count between them.
RECURSIVE Messages(_)
Messages(ids) ==
    IF ids = {} THEN 0
    ELSE LET sid == CHOOSE id \in ids : TRUE IN
         sessions[sid].message_count + Messages(ids \ {sid})

\* The locals of a chat request between two calls of the store.
ChatLoc(l) ==
    [IdleLoc EXCEPT !.op = "chat", !.session = l.session,
                    !.session_id = l.session_id, !.routed_to = l.routed_to,
                    !.request = l.request, !.messages = l.messages,
                    !.response_text = l.response_text]

\* main.py, lines 106-113.  No turn is started when the stored sessions
\* count MaxCount messages between them, the turns under way included.
chat(t) ==
    /\ pc[t] = "idle"
    /\ Messages(DOMAIN sessions) + Cardinality(Uncounted) < MaxCount
    /\ \E session_id \in CallerIds \cup {None}, customer_id \in CustomerArgs :
         /\ get_or_create_session_enter(t, session_id, customer_id,
                <<"chat_session">>, [IdleLoc EXCEPT !.op = "chat"])

\* main.py, line 114: session["session_id"] raises when session is None.
\* Of get_or_create_session the request keeps what it returned.
chat_session(t) ==
    /\ pc[t] = "chat_session"
    /\ IF loc[t].ret = None
       THEN HTTPException(t)
       ELSE /\ Step(t, "supervisor_invoke", << >>,
                    [IdleLoc EXCEPT !.op = "chat",
                                    !.request = loc[t].request,
                                    !.session = loc[t].ret,
                                    !.session_id = loc[t].ret])
            /\ UNCHANGED <<sessions, lock, clock, issued, applied>>

\* main.py, lines 124-158: supervisor.invoke raises, calls one of its tools,
\* or ends with its answer; routed_to comes from the first tool call.
supervisor_invoke(t) ==
    /\ pc[t] = "supervisor_invoke"
    /\ \/ HTTPException(t)
       \/ /\ loc[t].tool_calls < MaxToolCalls
          /\ \E tool_name \in ToolNames :
               Step(t, "specialist_invoke", << >>,
                    [loc[t] EXCEPT
                       !.tool = tool_name,
                       !.tool_calls = @ + 1,
                       !.tool_name = IF @ = "" THEN tool_name ELSE @])
          /\ UNCHANGED <<sessions, lock, clock, issued, applied>>
       \/ /\ Step(t, "chat_increment", << >>,
                  [loc[t] EXCEPT !.routed_to = RoutedTo(loc[t].tool_name),
                                 !.tool_name = "", !.tool_calls = 0])
          /\ UNCHANGED <<sessions, lock, clock, issued, applied>>

\* supervisor.py, lines 18-72: the specialist's invoke searches the vector
\* store, or ends with an answer or an exception, which the tool turns into
\* an answer.
specialist_invoke(t) ==
    /\ pc[t] = "specialist_invoke"
    /\ \/ /\ loc[t].tool \in SearchingTools
          /\ Step(t, "similarity_search", << >>, loc[t])
       \/ Step(t, "supervisor_invoke", << >>, [loc[t] EXCEPT !.tool = ""])
    /\ UNCHANGED <<sessions, lock, clock, issued, applied>>

\* billing_tools.py, lines 53-65, technical_tools.py: the search returns its
\* documents or raises, and the tool makes a string of either.
similarity_search(t) ==
    /\ pc[t] = "similarity_search"
    /\ Step(t, "specialist_invoke", << >>, loc[t])
    /\ UNCHANGED <<sessions, lock, clock, issued, applied>>

\* main.py, line 161
chat_increment(t) ==
    /\ pc[t] = "chat_increment"
    /\ increment_message_count_enter(t, loc[t].session_id,
                                     <<"chat_history">>, loc[t])

\* main.py, line 164: session.get("routing_history", []) + [routed_to], read
\* from the dict the request holds, outside the lock.  The history of a dict
\* that has left the store is read as empty: update_session does not find
\* the session and drops the argument.
chat_history(t) ==
    /\ pc[t] = "chat_history"
    /\ LET sid == loc[t].session_id
           routing_history == IF sid \in DOMAIN sessions
                              THEN sessions[sid].routing_history ELSE << >> IN
       Step(t, "chat_update", << >>,
            [ChatLoc(loc[t]) EXCEPT !.kwargs =
               [NoKwargs EXCEPT
                  !.keys = {"routing_history"},
                  !.routing_history =
                      Append(routing_history, loc[t].routed_to)]])
    /\ UNCHANGED <<sessions, lock, clock, issued, applied>>

\* main.py, lines 162-174: update_session, then the response
chat_update(t) ==
    /\ pc[t] = "chat_update"
    /\ update_session_enter(t, loc[t].session_id, loc[t].kwargs, << >>,
                            [loc[t] EXCEPT !.status_code = 200])

\* main.py, lines 191-194
cleanup_sessions(t) ==
    /\ pc[t] = "idle"
    /\ cleanup_expired_sessions_enter(t, <<"cleanup_count">>,
           [IdleLoc EXCEPT !.op = "cleanup_sessions"])

\* main.py, line 195
cleanup_sessions_count(t) ==
    /\ pc[t] = "cleanup_count"
    /\ get_session_count_enter(t, << >>,
                               [IdleLoc EXCEPT !.op = "cleanup_sessions"])

\* A request arrives: POST /chat, POST /sessions/cleanup, GET /sessions/count.
ChatCall(t) == chat(t) \/ cleanup_sessions(t) \/ get_session_count(t)

\* A request that is in its handler, outside the store, takes its next step.
ChatStep(t) ==
    \/ chat_session(t)
    \/ supervisor_invoke(t)
    \/ specialist_invoke(t)
    \/ similarity_search(t)
    \/ chat_increment(t)
    \/ chat_history(t)
    \/ chat_update(t)
    \/ cleanup_sessions_count(t)

NextChat ==
    (\E t \in Threads : ChatCall(t) \/ ChatStep(t) \/ StoreStep(t)) \/ Tick

\* Concurrent requests to the service.
SpecChat == Init /\ [][NextChat]_vars

\* The positions of a request inside a model or retrieval call.
ExternalCalls == {"supervisor_invoke", "specialist_invoke", "similarity_search"}

\* --------------------------------------------------------- billing tools
\* The Chroma handle of the billing collection.
Chroma == 1

\* billing_tools.py, line 42: the query of the static retrieval
StaticQuery == "billing policies refund terms payment"

\* The queries and session ids callers pass to search_billing_info.
Queries == {"invoice 1001", "pro plan price"}
BillingKeys == {"default", "session-a"}

\* The page_content of the documents a search can find, by its filter.
SearchResults(search) ==
    CASE search.filter = "static" ->
           { << >>, <<"Refunds within 30 days.">>,
             <<"Refunds within 14 days.", "Payment is due monthly.">> }
      [] search.filter = "dynamic" ->
           { << >>, <<"dynamic data on " \o search.query>> }
      [] OTHER ->
           { << >>, <<"data on " \o search.query>> }

\* vectorstore.similarity_search: documents, or an exception
similarity_search_outcomes(search) ==
    {[raised |-> FALSE, docs |-> docs] : docs \in SearchResults(search)}
      \cup {[raised |-> TRUE, docs |-> << >>]}

\* "\n\n".join(doc.page_content for doc in docs)
RECURSIVE Join(_)
Join(docs) ==
    IF docs = << >> THEN ""
    ELSE IF Len(docs) = 1 THEN docs[1]
    ELSE docs[1] \o "\n\n" \o Join(Tail(docs))

\* lines 41-45
StaticSearch == [query |-> StaticQuery, k |-> 3, filter |-> "static"]

\* A dynamic retrieval that asks the canonical question.
DynamicSearch_canonical(query) ==
    [query |-> StaticQuery, k |-> 3, filter |-> "dynamic"]

\* lines 55-59
DynamicSearch(query) == [query |-> query, k |-> 3, filter |-> "dynamic"]

\* line 64
FallbackSearch(query) == [query |-> query, k |-> 3, filter |-> "none"]

\* The record a call keeps of a search it made and of how it ended.
Searched(search, outcome) ==
    [query |-> search.query, filter |-> search.filter, raised |-> outcome.raised,
     text |-> IF outcome.raised THEN "" ELSE Join(outcome.docs)]

\* A cache that keeps the entry it has: setdefault.
CachePolicies_first_wins(cache, session_id, outcome) ==
    [k \in DOMAIN cache \cup {session_id} |->
       IF k \in DOMAIN cache THEN cache[k]
       ELSE IF outcome.raised THEN "" ELSE Join(outcome.docs)]

\* A cache that keeps successes only.
CachePolicies_success_only(cache, session_id, outcome) ==
    IF outcome.raised THEN cache
    ELSE [k \in DOMAIN cache \cup {session_id} |->
            IF k = session_id THEN Join(outcome.docs) ELSE cache[k]]

\* lines 46-51: the joined documents, or "" when the search raised
CachePolicies(cache, session_id, outcome) ==
    [k \in DOMAIN cache \cup {session_id} |->
       IF k = session_id
       THEN IF outcome.raised THEN "" ELSE Join(outcome.docs)
       ELSE cache[k]]

\* line 75
NoInformation == "No relevant billing information found."

\* The sentinel in the place of the message of line 34.
Unavailable_as_sentinel == NoInformation

\* line 34
Unavailable ==
    "Billing information is currently unavailable. Please try again later or contact support."

\* line 79, for the exception a failed search raises
ErrorRetrieving == "Error retrieving billing information: search failed"

\* A composition without the sentinel.
Compose_plain(policies, dynamic_context) ==
    LET r1 == IF policies # ""
              THEN "BILLING POLICIES (cached):\n" \o policies \o "\n\n"
              ELSE ""
    IN IF dynamic_context # ""
       THEN r1 \o "CURRENT BILLING DATA:\n" \o dynamic_context ELSE r1

\* lines 67-75
Compose(policies, dynamic_context) ==
    LET r1 == IF policies # ""
              THEN "BILLING POLICIES (cached):\n" \o policies \o "\n\n"
              ELSE ""
        result == IF dynamic_context # ""
                  THEN r1 \o "CURRENT BILLING DATA:\n" \o dynamic_context
                  ELSE r1
    IN IF result # "" THEN result ELSE NoInformation

\* vector_store.py, lines 32-47: the handle once it is loaded; until then
\* the load is tried again and succeeds or leaves None
get_billing_store == IF billing_store # None THEN {billing_store} ELSE {None, Chroma}

\* search_billing_info returns result.  To a caller of the model the call
\* that returned stays on view in last; to an agent the result is one more
\* message, and the locals of the call are gone.
ToolReturn(t, stk, l, result) ==
    IF stk = << >>
    THEN ReturnTo(t, stk, [l EXCEPT !.result = result], None)
    ELSE ReturnTo(t, stk,
                  [l EXCEPT !.query = "", !.cache_key = "",
                            !.dynamic_context = "", !.searches = << >>], None)

\* lines 31-38
search_billing_info_enter(t, query, session_id, stk, l) ==
    LET l2 == [l EXCEPT !.query = query, !.cache_key = session_id,
                        !.dynamic_context = "", !.searches = << >>,
                        !.result = ""] IN
    /\ \E vectorstore \in get_billing_store :
         /\ billing_store' = vectorstore
         /\ IF vectorstore = None
            THEN ToolReturn(t, stk, l2, Unavailable)
            ELSE IF session_id \notin DOMAIN SESSION_BILLING_POLICIES
            THEN Goto(t, "sb_static", stk, l2)
            ELSE Goto(t, "sb_dynamic", stk, l2)
    /\ UNCHANGED <<SESSION_BILLING_POLICIES, cached_in>>
    /\ UNCHANGED store_vars

\* lines 39-51
search_billing_info_static(t) ==
    /\ pc[t] = "sb_static"
    /\ \E outcome \in similarity_search_outcomes(StaticSearch) :
         /\ SESSION_BILLING_POLICIES' =
               CachePolicies(SESSION_BILLING_POLICIES, loc[t].cache_key, outcome)
         /\ cached_in' =
               [k \in DOMAIN SESSION_BILLING_POLICIES' |->
                  IF k = loc[t].cache_key THEN loc[t].session_id
                                          ELSE cached_in[k]]
         /\ Goto(t, "sb_dynamic", stack[t],
                 [loc[t] EXCEPT !.searches =
                    Append(@, Searched(StaticSearch, outcome))])
    /\ UNCHANGED billing_store
    /\ UNCHANGED store_vars

\* lines 54-62
search_billing_info_dynamic(t) ==
    /\ pc[t] = "sb_dynamic"
    /\ LET search == DynamicSearch(loc[t].query) IN
       \E outcome \in similarity_search_outcomes(search) :
         LET l == [loc[t] EXCEPT !.searches =
                     Append(@, Searched(search, outcome))] IN
         IF outcome.raised
         THEN Goto(t, "sb_fallback", stack[t], l)
         ELSE Goto(t, "sb_compose", stack[t],
                   [l EXCEPT !.dynamic_context = Join(outcome.docs)])
    /\ UNCHANGED billing_vars
    /\ UNCHANGED store_vars

\* lines 63-65, and lines 77-79 when the search of line 64 raises
search_billing_info_fallback(t) ==
    /\ pc[t] = "sb_fallback"
    /\ LET search == FallbackSearch(loc[t].query) IN
       \E outcome \in similarity_search_outcomes(search) :
         LET l == [loc[t] EXCEPT !.searches =
                     Append(@, Searched(search, outcome))] IN
         IF outcome.raised
         THEN ToolReturn(t, stack[t], l, ErrorRetrieving)
         ELSE Goto(t, "sb_compose", stack[t],
                   [l EXCEPT !.dynamic_context = Join(outcome.docs)])
    /\ UNCHANGED billing_vars
    /\ UNCHANGED store_vars

\* lines 67-75
search_billing_info_compose(t) ==
    /\ pc[t] = "sb_compose"
    /\ ToolReturn(t, stack[t], loc[t],
                  Compose(SESSION_BILLING_POLICIES[loc[t].cache_key],
                          loc[t].dynamic_context))
    /\ UNCHANGED billing_vars
    /\ UNCHANGED store_vars

search_billing_info(t) ==
    /\ pc[t] = "idle"
    /\ \E query \in Queries, session_id \in BillingKeys :
         search_billing_info_enter(t, query, session_id, << >>,
             [IdleLoc EXCEPT !.op = "search_billing_info"])

\* A call that begins when no other is under way.
search_billing_info_alone(t) ==
    /\ \A u \in Threads : pc[u] = "idle"
    /\ search_billing_info(t)

\* A thread that is inside search_billing_info takes its next step.
BillingStep(t) ==
    \/ search_billing_info_static(t)
    \/ search_billing_info_dynamic(t)
    \/ search_billing_info_fallback(t)
    \/ search_billing_info_compose(t)

NextBilling == \E t \in Threads : search_billing_info(t) \/ BillingStep(t)

\* Concurrent calls of search_billing_info.
SpecBilling == Init /\ [][NextBilling]_vars

NextBillingSeq ==
    \E t \in Threads : search_billing_info_alone(t) \/ BillingStep(t)

\* Calls of search_billing_info that do not overlap.
SpecBillingSeq == Init /\ [][NextBillingSeq]_vars

\* -------------------------------------------------------- calculate_price
\* A string is the sequence of its characters here.
LowerLetters ==
    <<"a", "b", "c", "d", "e", "f", "g", "h", "i", "j", "k", "l", "m", "n", "o", "p", "q", "r", "s", "t", "u", "v", "w", "x", "y", "z">>
UpperLetters ==
    <<"A", "B", "C", "D", "E", "F", "G", "H", "I", "J", "K", "L", "M", "N", "O", "P", "Q", "R", "S", "T", "U", "V", "W", "X", "Y", "Z">>

\* str.lower and str.upper, one character at a time
Lower(c) == IF \E i \in 1..26 : UpperLetters[i] = c
            THEN LowerLetters[CHOOSE i \in 1..26 : UpperLetters[i] = c] ELSE c
Upper(c) == IF \E i \in 1..26 : LowerLetters[i] = c
            THEN UpperLetters[CHOOSE i \in 1..26 : LowerLetters[i] = c] ELSE c

\* billing_tools.py, lines 95-101: the price table in the order of the dict,
\* the prices in cents
pricing ==
    << [key |-> <<"b", "a", "s", "i", "c", "_", "p", "l", "a", "n">>,
        cents |-> 999],
       [key |-> <<"p", "r", "o", "_", "p", "l", "a", "n">>,
        cents |-> 2999],
       [key |-> <<"e", "n", "t", "e", "r", "p", "r", "i", "s", "e", "_", "p", "l", "a", "n">>,
        cents |-> 9999],
       [key |-> <<"a", "d", "d", "o", "n", "_", "s", "t", "o", "r", "a", "g", "e">>,
        cents |-> 500],
       [key |-> <<"a", "d", "d", "o", "n", "_", "u", "s", "e", "r", "s">>,
        cents |-> 1000] >>

\* pricing.keys()
PricingKeys == {pricing[i].key : i \in DOMAIN pricing}

\* pricing[key]
UnitPrice(key) == pricing[CHOOSE i \in DOMAIN pricing : pricing[i].key = key].cents

\* A normalisation that leaves the spaces.
Normalize_lower_only(product) == [i \in DOMAIN product |-> Lower(product[i])]

\* line 103: product.lower().replace(" ", "_")
Normalize(product) ==
    [i \in DOMAIN product |->
       IF Lower(product[i]) = " " THEN "_" ELSE Lower(product[i])]

\* f"{x:.2f}" of an amount of cents: the sign, the digits before the point
\* and the two after it.  The code multiplies binary floats; for the table's
\* prices the product is within a fraction of a cent of the exact amount for
\* every quantity up to 200000, and two decimals round it to that amount.
Format2(cents) ==
    LET a == IF cents < 0 THEN 0 - cents ELSE cents IN
    [negative |-> cents < 0, units |-> a \div 100, hundredths |-> a % 100]

\* The first key alone.
Available_first == <<pricing[1].key>>

\* line 110: ", ".join(pricing.keys()), as the list of the keys joined
Available == [i \in DOMAIN pricing |-> pricing[i].key]

\* lines 103-111: the parts of the message returned
CalculatePrice(product, quantity) ==
    LET product_lower == Normalize(product) IN
    IF product_lower \in PricingKeys
    THEN LET unit_price == UnitPrice(product_lower)
             total_price == unit_price * quantity IN
         [found |-> TRUE, quantity |-> quantity, product |-> product,
          total |-> Format2(total_price), unit |-> Format2(unit_price)]
    ELSE [found |-> FALSE, product |-> product, available |-> Available]

\* The pairs of words product names are made of: the five of the table and
\* two that are not in it.
ProductWords ==
    {<<<<"b", "a", "s", "i", "c">>,
       <<"p", "l", "a", "n">>>>,
     <<<<"p", "r", "o">>,
       <<"p", "l", "a", "n">>>>,
     <<<<"e", "n", "t", "e", "r", "p", "r", "i", "s", "e">>,
       <<"p", "l", "a", "n">>>>,
     <<<<"a", "d", "d", "o", "n">>,
       <<"s", "t", "o", "r", "a", "g", "e">>>>,
     <<<<"a", "d", "d", "o", "n">>,
       <<"u", "s", "e", "r", "s">>>>,
     <<<<"g", "o", "l", "d">>,
       <<"p", "l", "a", "n">>>>,
     <<<<"p", "r", "o">>,
       <<"u", "s", "e", "r", "s">>>>}
Separators == {<<" ">>, <<"_">>, << >>, <<" ", " ">>}

\* A word in lower case, in upper case, or with a capital.
Cased(word, casing) ==
    [i \in DOMAIN word |->
       IF casing = "upper" \/ (casing = "title" /\ i = 1)
       THEN Upper(word[i]) ELSE word[i]]

\* The product names and quantities callers pass.
Products ==
    {Cased(w[1], casing) \o sep \o Cased(w[2], casing) :
       w \in ProductWords, sep \in Separators,
       casing \in {"lower", "upper", "title"}}
Quantities == 0..MaxQuantity

\* lines 82-111
calculate_price(t) ==
    /\ pc[t] = "idle"
    /\ \E product \in Products, quantity \in Quantities :
         ReturnTo(t, << >>,
                  [IdleLoc EXCEPT !.op = "calculate_price",
                                  !.product = product, !.quantity = quantity,
                                  !.message = CalculatePrice(product, quantity)],
                  None)
    /\ UNCHANGED billing_vars
    /\ UNCHANGED store_vars

NextPrice == \E t \in Threads : calculate_price(t)

\* Calls of calculate_price.
SpecPrice == Init /\ [][NextPrice]_vars

\* ------------------------------------------------- chat, billing spelt out
\* The session_id arguments the billing agent gives search_billing_info.
\* chat passes the supervisor the message alone (main.py, lines 125-127) and
\* billing_support passes on the request alone (supervisor.py, line 24): the
\* agent has no session id to give and the parameter takes its default.
AgentKeys == {"default"}

\* billing_agent.py, lines 43-44, and supervisor.py, lines 18-72: the billing
\* agent calls search_billing_info, the technical agent searches its store,
\* or the specialist ends with its answer.
specialist_invoke_tools(t) ==
    /\ pc[t] = "specialist_invoke"
    /\ \/ /\ loc[t].tool = "billing_support"
          /\ \E query \in Queries, session_id \in AgentKeys :
               search_billing_info_enter(t, query, session_id,
                                         <<"specialist_invoke">>, loc[t])
       \/ /\ loc[t].tool = "technical_support"
          /\ Step(t, "similarity_search", << >>, loc[t])
          /\ UNCHANGED store_vars
       \/ /\ Step(t, "supervisor_invoke", << >>,
                  [ChatLoc(loc[t]) EXCEPT !.tool_name = loc[t].tool_name,
                                          !.tool_calls = loc[t].tool_calls])
          /\ UNCHANGED store_vars

\* A chat turn that is in its handler, outside the store and the billing
\* tool, takes its next step.
ChatBillingStep(t) ==
    \/ chat_session(t)
    \/ supervisor_invoke(t)
    \/ specialist_invoke_tools(t)
    \/ similarity_search(t)
    \/ chat_increment(t)
    \/ chat_history(t)
    \/ chat_update(t)

\* The steps inside the store of a chat turn whose session is live.
TurnStoreStep(t) ==
    \/ create_session_store(t)
    \/ get_session_body(t)
    \/ get_or_create_session_get(t)
    \/ update_session_body(t)
    \/ increment_message_count_load(t)
    \/ increment_message_count_store(t)

NextChatBilling ==
    \E t \in Threads :
      chat(t) \/ ChatBillingStep(t) \/ TurnStoreStep(t) \/ BillingStep(t)

\* Concurrent chat turns with the billing lookups spelt out, all within the
\* timeout of their sessions.
SpecChatBilling == Init /\ [][NextChatBilling]_vars

\* ------------------------------------------- chat, the messages spelt out
\* The bodies POST /chat is sent: with a message, with an empty one, with
\* none.
Requests ==
    { [keys |-> {"message"}, message |-> "refund for invoice 1001"],
      [keys |-> {"message"}, message |-> ""],
      NoRequest }

\* A validation that lets every body through.
ChatRequest_unvalidated(request) == TRUE

\* models.py, line 18: message: str = Field(..., min_length=1)
ChatRequest(request) ==
    "message" \in request.keys /\ Len(request.message) >= 1

\* What the supervisor's model can write into the request argument of a tool
\* call: the message of the user, or its own words for it.
ToolRequests(message) == {message, "customer asks: " \o message}

\* The final answers of a specialist agent.
Answers == {"Your refund is on its way."}

\* The word of a specialist in its tool's messages.
Domain(name) ==
    CASE name = "billing_support" -> "billing"
      [] name = "technical_support" -> "technical"
      [] name = "policy_support" -> "policy"

\* supervisor.py, lines 31, 50, 69
NoResponse(name) == "No response from " \o Domain(name) \o " agent"

\* supervisor.py, lines 34, 53, 72
Apology(name) ==
    "I encountered an error processing your " \o Domain(name)
      \o " question. Please try rephrasing or contact support."

\* The content of the ToolMessage a tool node makes of an exception it
\* handles.
ToolError == "Error: Exception('agent')\n Please fix your mistakes."

\* A tool call in the messages of the supervisor, with the message of its
\* result.  fault names what went wrong in the specialist, raised tells
\* that the tool function ended with an exception.
ToolCall(name, request, content, fault, raised) ==
    [name |-> name, request |-> request, content |-> content,
     fault |-> fault, raised |-> raised]

\* supervisor.py, lines 18-72: what a call of a specialist's tool comes to.
\* get_*_agent (lines 22, 41, 60) stands before the try block: when the agent
\* cannot be made the exception leaves the tool.  An exception of
\* agent.invoke is answered with the apology (lines 32-34); an agent whose
\* retrieval tool found no store relays what the tool said; an agent without
\* a last message with content gives the "No response" text.
specialist_tool(name, request) ==
    {ToolCall(name, request, "", "agent", TRUE),
     ToolCall(name, request, Apology(name), "invoke", FALSE),
     ToolCall(name, request, NoResponse(name), "none", FALSE)}
      \cup {ToolCall(name, request, answer, "none", FALSE) : answer \in Answers}
      \cup (IF name = "billing_support"
            THEN {ToolCall(name, request, Unavailable, "retrieval", FALSE)}
            ELSE {})

\* The tool call the label is taken from, were it the last.
RoutingCall_last(messages) == messages[Len(messages)]

\* main.py, lines 149-151 and 158: the first message with tool calls, and
\* the first of its calls
RoutingCall(messages) == messages[1]

\* main.py, lines 148-158
Route(messages) ==
    IF messages = << >> THEN "Supervisor"
    ELSE RoutedTo(RoutingCall(messages).name)

\* main.py, lines 136-143: the content of the last message, which the
\* supervisor's model writes: the answer of the specialist it called last,
\* or words of its own.  (result always holds the user's message, so the
\* list is never empty and line 145 is not reached.)
LastContents(messages) ==
    {"Happy to help: our team will get back to you."}
      \cup {messages[i].content : i \in {Len(messages)} \ {0}}

\* The handler reads nothing of the messages after line 158; of what it has
\* read, the names of the tool calls are kept to the end of the turn.
Read(messages) ==
    [i \in DOMAIN messages |->
       ToolCall(messages[i].name, "", "", "none", FALSE)]

\* main.py, lines 176-181, for a turn whose locals are l
chat_except(t, l) ==
    /\ Finish(t, [l EXCEPT !.status_code = 500], None)
    /\ UNCHANGED store_vars

\* main.py, lines 98-113: FastAPI validates the body against ChatRequest
\* and answers 422 without calling the handler when it does not fit.  The
\* handler runs on the event loop and never awaits: a turn starts when no
\* other is under way.
chat_request(t) ==
    /\ \A u \in Threads : pc[u] = "idle"
    /\ Messages(DOMAIN sessions) < MaxCount
    /\ \E request \in Requests :
         IF ChatRequest(request)
         THEN \E session_id \in CallerIds \cup {None},
                 customer_id \in CustomerArgs :
                get_or_create_session_enter(t, session_id, customer_id,
                    <<"chat_session">>,
                    [IdleLoc EXCEPT !.op = "chat", !.request = request])
         ELSE /\ Finish(t, [IdleLoc EXCEPT !.op = "chat",
                                           !.request = request,
                                           !.status_code = 422], None)
              /\ UNCHANGED store_vars

\* main.py, lines 124-158: a step of supervisor.invoke.  The model call
\* raises, which ends the request (lines 130-132 and 176-181); or the model
\* calls one of the tools; or it writes its last message, and the handler
\* takes response_text and routed_to from the messages.
supervisor_invoke_messages(t) ==
    /\ pc[t] = "supervisor_invoke"
    /\ \/ chat_except(t, loc[t])
       \/ /\ Len(loc[t].messages) < MaxMessages
          /\ \E name \in ToolNames,
                request \in ToolRequests(loc[t].request.message) :
               Step(t, "specialist_invoke", << >>,
                    [loc[t] EXCEPT !.tool = name, !.query = request])
          /\ UNCHANGED store_vars
       \/ /\ \E content \in LastContents(loc[t].messages) :
               Step(t, "chat_increment", << >>,
                    [loc[t] EXCEPT !.response_text = content,
                                   !.routed_to = Route(loc[t].messages),
                                   !.messages = Read(loc[t].messages)])
          /\ UNCHANGED store_vars

\* supervisor.py, lines 18-72, within the tool node of the supervisor: the
\* tool returns its string, or raises; an exception the tool node either
\* makes a message of for the model, or lets through, which ends
\* supervisor.invoke with it.
specialist_invoke_messages(t) ==
    /\ pc[t] = "specialist_invoke"
    /\ \E call \in specialist_tool(loc[t].tool, loc[t].query) :
         LET l == [loc[t] EXCEPT !.tool = "", !.query = ""] IN
         \/ /\ ~call.raised
            /\ Step(t, "supervisor_invoke", << >>,
                    [l EXCEPT !.messages = Append(@, call)])
            /\ UNCHANGED store_vars
         \/ /\ call.raised
            /\ Step(t, "supervisor_invoke", << >>,
                    [l EXCEPT !.messages =
                        Append(@, [call EXCEPT !.content = ToolError])])
            /\ UNCHANGED store_vars
         \/ /\ call.raised
            /\ chat_except(t, [l EXCEPT !.messages = Append(@, call)])

\* A chat turn that is in its handler, outside the store, takes its next
\* step.
ChatMessagesStep(t) ==
    \/ chat_session(t)
    \/ supervisor_invoke_messages(t)
    \/ specialist_invoke_messages(t)
    \/ chat_increment(t)
    \/ chat_history(t)
    \/ chat_update(t)

NextChatMessages ==
    \E t \in Threads :
      chat_request(t) \/ ChatMessagesStep(t) \/ TurnStoreStep(t)

\* Chat turns one after another with their messages spelt out, all within
\* the timeout of their sessions.
SpecChatMessages == Init /\ [][NextChatMessages]_vars

\* ------------------------------------------------------------- the claims
\* What the step that thread t takes hands back to its caller.
Returned(t) == IF pc'[t] = "idle" THEN last'.call.ret ELSE loc'[t].ret

\* Thread t takes the step at label.
Takes(t, label) == pc[t] = label /\ pc'[t] # label

\* C1: get_session returns the session exactly when it is stored and
\* now - last_activity <= timeout (equality is live) and then leaves its
\* last_activity at the current time; a stored session with
\* now - last_activity > timeout is removed from the store, None is returned
\* and the session count drops by one.
C1_GetSession ==
    [][\A t \in Threads : Takes(t, "gs_body") =>
         LET sid == loc[t].session_id IN
         /\ Returned(t) # None =>
              /\ Returned(t) = sid
              /\ sid \in DOMAIN sessions
              /\ clock - sessions[sid].last_activity <= session_timeout
              /\ sid \in DOMAIN sessions'
              /\ sessions'[sid].last_activity = clock'
         /\ (sid \in DOMAIN sessions
               /\ clock - sessions[sid].last_activity <= session_timeout)
              => Returned(t) = sid
         /\ (sid \in DOMAIN sessions
               /\ clock - sessions[sid].last_activity > session_timeout)
              => /\ Returned(t) = None
                 /\ sid \notin DOMAIN sessions'
                 /\ Cardinality(DOMAIN sessions')
                      = Cardinality(DOMAIN sessions) - 1
    ]_vars

\* A get_session has just found its session expired and removed it; the other
\* session is still stored.
C1_Witness ==
    /\ last.call.op = "get_session"
    /\ last.call.session # None
    /\ last.call.ret = None
    /\ last.call.session_id \notin DOMAIN sessions
    /\ DOMAIN sessions # {}

\* C2: the last_activity of a stored session never decreases, whatever
\* get_session, update_session and increment_message_count calls interleave.
C2_LastActivityMonotone ==
    [][\A sid \in DOMAIN sessions \cap DOMAIN sessions' :
         sessions'[sid].last_activity >= sessions[sid].last_activity]_vars

\* An update_session that passed last_activity = 0 has returned and the
\* session's last_activity is the later time of the call.
C2_Witness ==
    /\ last.call.op = "update_session"
    /\ "last_activity" \in last.call.kwargs.keys
    /\ last.call.session # None
    /\ last.call.session_id \in DOMAIN sessions
    /\ sessions[last.call.session_id].last_activity > 0

\* C3, as claimed: every get_session, update_session and
\* increment_message_count on a stored, unexpired session leaves its
\* last_activity at the current time.
C3_EveryAccessRefreshes ==
    [][\A t \in Threads :
         (Takes(t, "gs_body") \/ Takes(t, "us_body") \/ Takes(t, "im_store")) =>
         LET sid == loc[t].session_id IN
         (sid \in DOMAIN sessions
            /\ clock - sessions[sid].last_activity <= session_timeout)
           => /\ sid \in DOMAIN sessions'
              /\ sessions'[sid].last_activity = clock'
    ]_vars

\* C4, as claimed: update_session leaves the store unchanged when the
\* session is absent or has now - last_activity > timeout, and merges and
\* refreshes only a live session.
C4_UpdateOnlyLive ==
    [][\A t \in Threads : Takes(t, "us_body") =>
         LET sid == loc[t].session_id IN
         IF sid \in DOMAIN sessions
              /\ clock - sessions[sid].last_activity <= session_timeout
         THEN /\ DOMAIN sessions' = DOMAIN sessions
              /\ sessions'[sid].last_activity = clock'
         ELSE sessions' = sessions
    ]_vars

\* C5: the message_count of a stored session is the number of
\* increment_message_count calls that found it stored (those past their read
\* and before their write are counted with the write they owe), so n
\* concurrent calls add exactly n; a call for an id that is not stored
\* changes nothing and returns.
C5_IncrementAtomic ==
    /\ [](\A sid \in DOMAIN sessions :
            sessions[sid].message_count
              + Cardinality({t \in Threads : pc[t] = "im_store"
                                             /\ loc[t].session_id = sid})
              = applied[sid])
    /\ [][\A t \in Threads :
            (Takes(t, "im_load") /\ loc[t].session_id \notin DOMAIN sessions)
              => sessions' = sessions /\ pc'[t] = "idle"
                 /\ last'.call.ret = None]_vars

\* Two increment_message_count calls have been applied to one stored session.
C5_Witness ==
    /\ last.call.op = "increment_message_count"
    /\ last.call.session # None
    /\ last.call.session_id \in DOMAIN sessions
    /\ sessions[last.call.session_id].message_count = 2

\* C6: the sweep removes exactly the sessions whose last_activity lies more
\* than the timeout before the sweep's `now` and leaves every other session
\* stored with all its fields, also with other callers at work.
C6_SweepExact ==
    [][\A t \in Threads : Takes(t, "ce_del") =>
         LET keep == {sid \in DOMAIN sessions :
                        loc[t].now - sessions[sid].last_activity
                          <= session_timeout} IN
         /\ DOMAIN sessions' = keep
         /\ \A sid \in keep : sessions'[sid] = sessions[sid]
    ]_vars

\* A sweep has removed one session and kept the other.
C6_Witness ==
    /\ last.call.op = "cleanup_expired_sessions"
    /\ last.call.expired # {}
    /\ DOMAIN sessions # {}
    /\ last.call.expired \cap DOMAIN sessions = {}

\* C7: create_session adds exactly one session, under an id that is not in
\* the store, with message_count 0, an empty routing_history and
\* created_at <= last_activity, both read during the call; every session
\* stored before is unchanged.
C7_CreateFresh ==
    [][\A t \in Threads : Takes(t, "cs_store") =>
         LET sid == loc[t].session_id IN
         /\ sid \notin DOMAIN sessions
         /\ DOMAIN sessions' = DOMAIN sessions \cup {sid}
         /\ sessions'[sid].session_id = sid
         /\ sessions'[sid].customer_id = loc[t].customer_id
         /\ sessions'[sid].message_count = 0
         /\ sessions'[sid].routing_history = << >>
         /\ sessions'[sid].created_at = clock
         /\ sessions'[sid].last_activity = clock'
         /\ sessions'[sid].created_at <= sessions'[sid].last_activity
         /\ Returned(t) = sid
         /\ \A other \in DOMAIN sessions : sessions'[other] = sessions[other]
    ]_vars

\* A second session has just been created beside a stored one that has been
\* used, and its two time stamps differ.
C7_Witness ==
    /\ last.call.op = "create_session"
    /\ Cardinality(DOMAIN sessions) = 2
    /\ sessions[last.call.ret].created_at < sessions[last.call.ret].last_activity
    /\ \E other \in DOMAIN sessions : sessions[other].message_count > 0

\* C8: get_or_create_session(None) followed, before the timeout elapses, by
\* get_session on the id of the session it returned, returns that session,
\* with message_count 0 and an empty routing_history.
C8_RoundTrip ==
    [][\A t \in Threads :
         (/\ Takes(t, "gs_body")
          /\ loc[t].op = "round_trip"
          /\ stack[t] = << >>
          /\ loc[t].session_id \in DOMAIN sessions
          /\ clock - sessions[loc[t].session_id].last_activity <= session_timeout)
         => /\ Returned(t) = loc[t].new_session_id
            /\ Returned(t) \in DOMAIN sessions'
            /\ sessions'[Returned(t)].session_id = loc[t].new_session_id
            /\ sessions'[Returned(t)].message_count = 0
            /\ sessions'[Returned(t)].routing_history = << >>
    ]_vars

\* A round trip has just returned its session, some time after it began and
\* beside another session that has been used.
C8_Witness ==
    /\ last.call.op = "round_trip"
    /\ last.call.ret # None
    /\ sessions[last.call.ret].created_at < sessions[last.call.ret].last_activity
    /\ \E other \in DOMAIN sessions : sessions[other].message_count > 0

\* C9: get_or_create_session with an id that resolves to a live session
\* returns that session and stores no session; otherwise it creates one
\* session under a fresh id, different from the caller's, and returns it.
C9_GetOrCreate ==
    [][\A t \in Threads :
         /\ (/\ Takes(t, "gs_body")
             /\ stack[t] # << >> /\ Head(stack[t]) = "goc_check"
             /\ loc[t].session_id \in DOMAIN sessions
             /\ clock - sessions[loc[t].session_id].last_activity
                   <= session_timeout)
            => /\ Returned(t) = loc[t].goc_session_id
               /\ DOMAIN sessions' = DOMAIN sessions
         /\ (/\ Takes(t, "gs_body")
             /\ loc[t].new_session_id # None
             /\ loc[t].session_id = loc[t].new_session_id)
            => /\ Returned(t) = loc[t].new_session_id
               /\ Returned(t) # loc[t].goc_session_id
               /\ Returned(t) \in DOMAIN sessions'
    ]_vars

\* C10: a request that is inside supervisor.invoke, a specialist's invoke or
\* a vector-store search does not hold the lock of the SessionManager.
C10_NoLockAcrossExternalCall ==
    \A t \in Threads : pc[t] \in ExternalCalls => lock # t

\* One request is searching the vector store while another is inside a with
\* block of the store.
C10_Witness ==
    \E t \in Threads, u \in Threads :
      /\ pc[t] = "similarity_search"
      /\ u # t
      /\ lock = u

\* C11: outside SessionManager no field of a stored session is read or
\* written without the lock: the handler's read of the routing_history of
\* its session (main.py, line 164) is made by a thread that holds it.
C11_FieldsUnderLock ==
    [][\A t \in Threads :
         (Takes(t, "chat_history") /\ loc[t].session_id \in DOMAIN sessions)
         => lock = t
    ]_vars

\* The searches of the log made with the given filter.
SearchesWith(searches, filter) ==
    {i \in DOMAIN searches : searches[i].filter = filter}

\* C12: among calls of search_billing_info that do not overlap, the static
\* retrieval (the canonical query, filter static) runs only in a call that
\* finds no entry for its session id, once, and leaves an entry, which is ""
\* when the retrieval failed; no entry is ever dropped, so no later call for
\* that session id runs it again.
C12_StaticMemoized ==
    /\ [][\A t \in Threads : Takes(t, "sb_static") =>
            LET key == loc[t].cache_key
                search == loc'[t].searches[Len(loc'[t].searches)] IN
            /\ key \notin DOMAIN SESSION_BILLING_POLICIES
            /\ key \in DOMAIN SESSION_BILLING_POLICIES'
            /\ search.query = StaticQuery /\ search.filter = "static"
            /\ search.raised => SESSION_BILLING_POLICIES'[key] = ""
         ]_vars
    /\ [][\A key \in DOMAIN SESSION_BILLING_POLICIES :
            key \in DOMAIN SESSION_BILLING_POLICIES']_vars
    /\ [][\A t \in Threads :
            (/\ pc[t] = "idle" /\ pc'[t] # "idle"
             /\ loc'[t].cache_key \in DOMAIN SESSION_BILLING_POLICIES)
            => pc'[t] = "sb_dynamic"]_vars
    /\ [](\A t \in Threads :
            /\ Cardinality(SearchesWith(loc[t].searches, "static")) <= 1
            /\ pc[t] = "sb_static" => loc[t].searches = << >>)

\* A call has returned what it composed from an empty entry that an earlier
\* call left, without a static retrieval of its own.
C12_Witness ==
    /\ last.call.op = "search_billing_info"
    /\ last.call.result # Unavailable
    /\ last.call.cache_key \in DOMAIN SESSION_BILLING_POLICIES
    /\ SESSION_BILLING_POLICIES[last.call.cache_key] = ""
    /\ SearchesWith(last.call.searches, "static") = {}
    /\ SearchesWith(last.call.searches, "dynamic") # {}

\* C13: once an entry is stored for a session id in SESSION_BILLING_POLICIES
\* its value never changes, so that every later call for that session id
\* serves the static portion the first call served.
C13_StaticImmutable ==
    [][\A key \in DOMAIN SESSION_BILLING_POLICIES :
         /\ key \in DOMAIN SESSION_BILLING_POLICIES'
         /\ SESSION_BILLING_POLICIES'[key] = SESSION_BILLING_POLICIES[key]
    ]_vars

\* The texts a search can come to, joined.
Texts(search) == {Join(docs) : docs \in SearchResults(search)}

\* C15: every call of search_billing_info that finds the store available
\* makes one retrieval with filter dynamic and the query it was called with,
\* and its dynamic context is what that retrieval found; what is kept
\* between calls is static text only.
C15_FreshDynamic ==
    /\ [][\A t \in Threads : Takes(t, "sb_dynamic") =>
            LET search == loc'[t].searches[Len(loc'[t].searches)] IN
            /\ SearchesWith(loc[t].searches, "dynamic") = {}
            /\ loc[t].dynamic_context = ""
            /\ search.query = loc[t].query /\ search.filter = "dynamic"
            /\ ~search.raised =>
                  loc'[t].dynamic_context \in Texts(DynamicSearch(loc[t].query))
         ]_vars
    /\ [][\A t \in Threads :
            (pc[t] = "idle" /\ pc'[t] # "idle" /\ billing_store' # None)
            => pc'[t] \in {"sb_static", "sb_dynamic"}]_vars
    /\ [][\A t \in Threads : Takes(t, "sb_static") => pc'[t] = "sb_dynamic"]_vars
    /\ [](\A t \in Threads : pc[t] \in {"sb_fallback", "sb_compose"} =>
            Cardinality(SearchesWith(loc[t].searches, "dynamic")) = 1)
    /\ [](\A key \in DOMAIN SESSION_BILLING_POLICIES :
            SESSION_BILLING_POLICIES[key] \in Texts(StaticSearch))

\* A call has returned the dynamic data on its query while another call of
\* the same session id holds the dynamic data on a different query.
C15_Witness ==
    /\ last.call.op = "search_billing_info"
    /\ last.call.dynamic_context = "dynamic data on " \o last.call.query
    /\ \E u \in Threads :
         /\ pc[u] = "sb_compose"
         /\ loc[u].cache_key = last.call.cache_key
         /\ loc[u].query # last.call.query
         /\ loc[u].dynamic_context = "dynamic data on " \o loc[u].query

\* C16: when the retrieval with filter dynamic fails, search_billing_info
\* makes one unfiltered retrieval of the same query, and when that fails too
\* it returns what it composes from the cached policies and an empty dynamic
\* context: the static block alone, or the no-information message.
C16_FallbackThenEmpty ==
    /\ [][\A t \in Threads : Takes(t, "sb_fallback") =>
            LET search == loc'[t].searches[Len(loc'[t].searches)] IN
            /\ search.query = loc[t].query /\ search.filter = "none"
            /\ SearchesWith(loc[t].searches, "none") = {}
         ]_vars
    /\ []((/\ last.call.op = "search_billing_info"
            /\ \E i \in SearchesWith(last.call.searches, "none") :
                 last.call.searches[i].raised)
           => last.call.result =
                Compose(SESSION_BILLING_POLICIES[last.call.cache_key], ""))

\* C17: the result search_billing_info composes holds the block labelled
\* BILLING POLICIES (cached) exactly when the cached policies are not empty,
\* the block labelled CURRENT BILLING DATA exactly when the dynamic context
\* is not empty, and is the no-information message when both are empty; no
\* call returns the empty string.
C17_Composition ==
    /\ [][\A t \in Threads : Takes(t, "sb_compose") =>
            LET policies == SESSION_BILLING_POLICIES[loc[t].cache_key]
                dynamic_context == loc[t].dynamic_context
                static_block == "BILLING POLICIES (cached):\n" \o policies \o "\n\n"
                dynamic_block == "CURRENT BILLING DATA:\n" \o dynamic_context
                result == last'.call.result IN
            /\ pc'[t] = "idle"
            /\ (policies = "" /\ dynamic_context = "") => result = NoInformation
            /\ (policies # "" /\ dynamic_context = "") => result = static_block
            /\ (policies = "" /\ dynamic_context # "") => result = dynamic_block
            /\ (policies # "" /\ dynamic_context # "")
                  => result = static_block \o dynamic_block
         ]_vars
    /\ [](last.call.op = "search_billing_info" => last.call.result # "")

\* A call has returned both blocks, the policies first.
C17_Witness ==
    /\ last.call.op = "search_billing_info"
    /\ last.call.dynamic_context # ""
    /\ last.call.cache_key \in DOMAIN SESSION_BILLING_POLICIES
    /\ SESSION_BILLING_POLICIES[last.call.cache_key] # ""
    /\ last.call.result =
         "BILLING POLICIES (cached):\n"
           \o SESSION_BILLING_POLICIES[last.call.cache_key] \o "\n\n"
           \o "CURRENT BILLING DATA:\n" \o last.call.dynamic_context

\* C18: when get_billing_store returns None, search_billing_info returns the
\* currently-unavailable message, makes no retrieval and writes no cache
\* entry; the message is not the no-information message.
C18_Unavailable ==
    /\ [][\A t \in Threads :
            (/\ pc[t] = "idle" /\ billing_store' = None
             /\ last'.call.op = "search_billing_info" /\ last'.thread = t)
            => /\ pc'[t] = "idle"
               /\ last'.call.result = Unavailable
               /\ last'.call.searches = << >>
               /\ SESSION_BILLING_POLICIES' = SESSION_BILLING_POLICIES
         ]_vars
    /\ [][\A t \in Threads :
            (pc[t] = "idle" /\ pc'[t] # "idle") => billing_store' # None]_vars
    /\ [](last.call.op = "search_billing_info" /\ last.call.searches = << >>
            => last.call.result = Unavailable /\ last.call.result # NoInformation)

\* A call has returned the unavailable message after an earlier attempt
\* found the store absent too, and nothing is cached.
C18_Witness ==
    /\ last.call.op = "search_billing_info"
    /\ last.call.result = Unavailable
    /\ billing_store = None
    /\ SESSION_BILLING_POLICIES = << >>

\* C14: the policy text a billing lookup serves inside a chat turn was
\* cached in a turn of the same session, never in a turn of another.
C14_OwnSessionKey ==
    [][\A t \in Threads :
         (Takes(t, "sb_compose") /\ loc[t].op = "chat")
         => cached_in[loc[t].cache_key] = loc[t].session_id
    ]_vars

\* C19: for a product name that lower-cased and with "_" for " " is a key of
\* the price table, calculate_price reports quantity times the unit price of
\* that key, with two decimals; ("Pro Plan", 3) is looked up as pro_plan and
\* comes to 89.97; two calls with the same arguments return the same.
C19_CalculatePrice ==
    /\ [](last.call.op = "calculate_price" =>
            LET product == last.call.product
                quantity == last.call.quantity
                message == last.call.message
                key == [i \in DOMAIN product |->
                          IF product[i] = " " THEN "_" ELSE Lower(product[i])] IN
            /\ key \in PricingKeys =>
                 /\ message.found
                 /\ message.quantity = quantity /\ message.product = product
                 /\ message.total.hundredths \in 0..99
                 /\ message.total.units * 100 + message.total.hundredths
                      = UnitPrice(key) * quantity
                 /\ ~message.total.negative
                 /\ message.unit.units * 100 + message.unit.hundredths
                      = UnitPrice(key)
            /\ (product = <<"P", "r", "o", " ", "P", "l", "a", "n">> /\ quantity = 3) =>
                 /\ Normalize(product) = <<"p", "r", "o", "_", "p", "l", "a", "n">>
                 /\ message.found
                 /\ message.total = [negative |-> FALSE, units |-> 89,
                                     hundredths |-> 97])
    /\ [][(/\ last.call.op = "calculate_price"
            /\ last'.call.op = "calculate_price"
            /\ last'.call.product = last.call.product
            /\ last'.call.quantity = last.call.quantity)
           => last'.call.message = last.call.message]_vars

\* calculate_price("Pro Plan", 3) has returned.
C19_Witness ==
    /\ last.call.op = "calculate_price"
    /\ last.call.product = <<"P", "r", "o", " ", "P", "l", "a", "n">>
    /\ last.call.quantity = 3
    /\ last.call.message.found

\* C20: for a product name that does not normalise to a key of the price
\* table calculate_price returns the not-found message, which lists every
\* key of the table.
C20_UnknownProduct ==
    (last.call.op = "calculate_price" =>
         LET message == last.call.message IN
         Normalize(last.call.product) \notin PricingKeys =>
           /\ ~message.found
           /\ message.product = last.call.product
           /\ \A i \in DOMAIN pricing :
                \E j \in DOMAIN message.available :
                  message.available[j] = pricing[i].key)

\* calculate_price has returned the list of keys for "Pro  Plan", which
\* with its two spaces is no key.
C20_Witness ==
    /\ last.call.op = "calculate_price"
    /\ last.call.product = <<"P", "r", "o", " ", " ", "P", "l", "a", "n">>
    /\ ~last.call.message.found
    /\ Len(last.call.message.available) = 5

\* C21: every completed chat turn carries one routed_to label out of Billing
\* Support, Technical Support, Policy & Compliance and Supervisor: the label
\* of the first tool call among the turn's messages, whatever calls follow
\* it, and Supervisor when no tool was called.
C21_RoutedTo ==
    (last.call.op = "chat" /\ last.call.status_code = 200) =>
      LET messages == last.call.messages
          routed_to == last.call.routed_to IN
      /\ routed_to \in {"Billing Support", "Technical Support",
                        "Policy & Compliance", "Supervisor"}
      /\ messages = << >> => routed_to = "Supervisor"
      /\ messages # << >> =>
           /\ messages[1].name = "billing_support"
                => routed_to = "Billing Support"
           /\ messages[1].name = "technical_support"
                => routed_to = "Technical Support"
           /\ messages[1].name = "policy_support"
                => routed_to = "Policy & Compliance"

\* A turn has completed in which the supervisor called billing_support and
\* then another tool, and the label is Billing Support.
C21_Witness ==
    /\ last.call.op = "chat"
    /\ last.call.status_code = 200
    /\ Len(last.call.messages) = 2
    /\ last.call.messages[1].name = "billing_support"
    /\ last.call.messages[2].name = "technical_support"
    /\ last.call.routed_to = "Billing Support"

\* The supervisor has written its last message and the handler takes the
\* response and the label from the messages.
Extracts(t) == pc[t] = "supervisor_invoke" /\ pc'[t] = "chat_increment"

\* C22: when a specialist was called in a turn, the response text of the
\* turn is the text a specialist returned, word for word.
C22_Verbatim ==
    [][\A t \in Threads :
         (Extracts(t) /\ loc[t].messages # << >>) =>
           \E i \in DOMAIN loc[t].messages :
             loc'[t].response_text = loc[t].messages[i].content]_vars

\* C23: the text a specialist's tool is called with is the message of the
\* chat request, unchanged.
C23_OriginalQuery ==
    [][\A t \in Threads :
         (pc[t] = "supervisor_invoke" /\ pc'[t] = "specialist_invoke") =>
           loc'[t].query = loc[t].request.message]_vars

\* C24: a call of a specialist's tool always hands the supervisor a string:
\* no exception leaves the tool, and a fault of the specialist comes back
\* as the apology of its tool.
C24_CaughtAtSpecialist ==
    [][\A t \in Threads :
         (Takes(t, "specialist_invoke") /\ loc[t].op = "chat") =>
           LET messages == IF pc'[t] = "idle" THEN last'.call.messages
                           ELSE loc'[t].messages
               call == messages[Len(messages)] IN
           /\ ~call.raised
           /\ pc'[t] = "supervisor_invoke"
           /\ call.fault \in {"agent", "invoke"}
                => call.content = Apology(call.name)]_vars

\* C25: a fault of the specialist or of its retrieval does not end the
\* turn, and the turn is recorded: on a session that stays stored its
\* message_count goes up by one and its history gets the turn's label at
\* its end.
C25_FaultyTurnRecorded ==
    [][\A t \in Threads :
         loc[t].op = "chat" =>
           /\ Takes(t, "specialist_invoke") => pc'[t] # "idle"
           /\ LET sid == loc[t].session_id IN
              (sid \in DOMAIN sessions /\ sid \in DOMAIN sessions') =>
                /\ Takes(t, "im_store") =>
                     sessions'[sid].message_count
                       = sessions[sid].message_count + 1
                /\ Takes(t, "us_body") =>
                     LET routing_history == sessions'[sid].routing_history IN
                     /\ routing_history # << >>
                     /\ routing_history[Len(routing_history)]
                          = loc[t].routed_to]_vars

\* C26: a chat request without a message, or with an empty one, never gets
\* into the handler: it is answered 422 in one step that leaves the store,
\* the lock and the billing cache as they are, and no supervisor or
\* specialist runs for it.
C26_RejectedBeforeDispatch ==
    /\ [](\A t \in Threads :
            loc[t].op = "chat" =>
              /\ "message" \in loc[t].request.keys
              /\ loc[t].request.message # "")
    /\ [][(/\ last'.call.op = "chat"
           /\ \/ "message" \notin last'.call.request.keys
              \/ last'.call.request.message = "")
          => /\ last'.call.status_code = 422
             /\ last'.call.messages = << >>
             /\ UNCHANGED <<sessions, lock, clock, issued, applied>>
             /\ UNCHANGED billing_vars
             /\ pc[last'.thread] = "idle"]_vars

\* A request with an empty message has been answered 422 while a session is
\* stored.
C26_Witness ==
    /\ last.call.op = "chat"
    /\ last.call.request = [keys |-> {"message"}, message |-> ""]
    /\ last.call.status_code = 422
    /\ DOMAIN sessions # {}

\* C27: every chat request with a non-empty message ends with a successful
\* response.
C27_OnlyMalformedFails ==
    (/\ last.call.op = "chat"
     /\ "message" \in last.call.request.keys
     /\ last.call.request.message # "")
      => last.call.status_code = 200

\* C28: the message_count and the routing_history of a stored session
\* change together, in one step: no step changes one and not the other.
C28_SingleMerge ==
    [][\A sid \in DOMAIN sessions \cap DOMAIN sessions' :
         (sessions'[sid].message_count # sessions[sid].message_count)
           <=> (sessions'[sid].routing_history
                  # sessions[sid].routing_history)]_vars

\* h is g or the beginning of g.
IsPrefix(h, g) ==
    /\ Len(h) <= Len(g)
    /\ \A i \in DOMAIN h : h[i] = g[i]

C30_LastWriteWins ==
    /\ [][\A t \in Threads : Takes(t, "sb_static") =>
            LET key == loc[t].cache_key
                search == loc'[t].searches[Len(loc'[t].searches)] IN
            /\ search.filter = "static"
            /\ DOMAIN SESSION_BILLING_POLICIES'
                 = DOMAIN SESSION_BILLING_POLICIES \cup {key}
            /\ SESSION_BILLING_POLICIES'[key] = search.text
            /\ \A k \in DOMAIN SESSION_BILLING_POLICIES \ {key} :
                 SESSION_BILLING_POLICIES'[k] = SESSION_BILLING_POLICIES[k]
         ]_vars
    /\ [][\A key \in DOMAIN SESSION_BILLING_POLICIES' :
            (\/ key \notin DOMAIN SESSION_BILLING_POLICIES
             \/ SESSION_BILLING_POLICIES'[key] # SESSION_BILLING_POLICIES[key])
            => \E t \in Threads :
                 Takes(t, "sb_static") /\ loc[t].cache_key = key]_vars
    /\ [](\A t \in Threads :
            Cardinality(SearchesWith(loc[t].searches, "static")) <= 1)
    /\ []((/\ last.call.op = "search_billing_info"
           /\ SearchesWith(last.call.searches, "static") # {}) =>
            LET searches == last.call.searches
                key == last.call.cache_key IN
            /\ Cardinality(SearchesWith(searches, "static")) = 1
            /\ key \in DOMAIN SESSION_BILLING_POLICIES
            /\ IF /\ searches[Len(searches)].filter = "none"
                  /\ searches[Len(searches)].raised
               THEN last.call.result = ErrorRetrieving
               ELSE last.call.result =
                      Compose(SESSION_BILLING_POLICIES[key],
                              last.call.dynamic_context))

\* Two calls for one session id have both run the static retrieval, with
\* different texts; the entry holds the text of the one that wrote last,
\* and the one that wrote first has returned with that text for its
\* policies.
C30_Witness ==
    /\ last.call.op = "search_billing_info"
    /\ SearchesWith(last.call.searches, "static") # {}
    /\ \E u \in Threads :
         /\ pc[u] \in {"sb_dynamic", "sb_fallback", "sb_compose"}
         /\ loc[u].cache_key = last.call.cache_key
         /\ SearchesWith(loc[u].searches, "static") # {}
         /\ loc[u].searches[1].text # last.call.searches[1].text
         /\ SESSION_BILLING_POLICIES[loc[u].cache_key] = loc[u].searches[1].text
         /\ last.call.result
              = Compose(loc[u].searches[1].text, last.call.dynamic_context)
         /\ last.call.result # NoInformation

\* C31: get_or_create_session always returns a session, never None,
\* whatever other requests do in the store and however much time passes
\* between its create_session and its get_session; so a chat request always
\* has a session when it reads session["session_id"], and every completed
\* turn reports a session id.
C31_NeverAbsent ==
    /\ last.call.op = "get_or_create_session" => last.call.ret # None
    /\ \A t \in Threads : pc[t] = "chat_session" => loc[t].ret # None
    /\ (last.call.op = "chat" /\ last.call.status_code = 200)
         => last.call.session_id # None

C34_ResumeFrame ==
    [][\A t \in Threads :
         (Takes(t, "gs_body") /\ Returned(t) # None) =>
           LET sid == loc[t].session_id IN
           /\ DOMAIN sessions' = DOMAIN sessions
           /\ \A s \in DOMAIN sessions \ {sid} : sessions'[s] = sessions[s]
           /\ sessions'[sid].session_id = sessions[sid].session_id
           /\ sessions'[sid].customer_id = sessions[sid].customer_id
           /\ sessions'[sid].created_at = sessions[sid].created_at
           /\ sessions'[sid].message_count = sessions[sid].message_count
           /\ sessions'[sid].routing_history = sessions[sid].routing_history
           /\ sessions'[sid].cached_billing_policies
                = sessions[sid].cached_billing_policies]_vars

\* get_or_create_session has returned a session that has counted a message
\* to a caller who named it and passed another customer id, with a second
\* session in the store.
C34_Witness ==
    /\ last.call.op = "get_or_create_session"
    /\ last.call.goc_session_id # None
    /\ last.call.ret = last.call.goc_session_id
    /\ last.call.ret \in DOMAIN sessions
    /\ last.call.customer_id \in OtherCustomerArgs
    /\ sessions[last.call.ret].customer_id \in CustomerArgs
    /\ sessions[last.call.ret].message_count > 0
    /\ Cardinality(DOMAIN sessions) = 2

\* Thread t is about to create a session and the ids of the run are used up.
OutOfIds(t) == pc[t] = "goc_create" /\ uuid4 = {}

\* C33: the store does not deadlock.  A thread holds the lock only inside a
\* with block, where nothing takes the lock; under fair scheduling the
\* holder of the lock releases it, and every call that is under way, the
\* ones waiting for the lock within get_or_create_session included, returns
\* to its caller.
C33_DeadlockFree ==
    /\ [](\A t \in Threads : lock = t => pc[t] \in WithBlocks)
    /\ \A t \in Threads : (lock = t) ~> (lock # t)
    /\ \A t \in Threads :
         (pc[t] # "idle") ~> (pc[t] = "idle" \/ OutOfIds(t))

\* One call is between the two with blocks of get_or_create_session, about
\* to take the lock again, while another thread holds it.
C33_Witness ==
    \E t \in Threads, u \in Threads :
      /\ u # t
      /\ pc[t] = "goc_get"
      /\ lock = u
      /\ pc[u] \in WithBlocks

====
